---- MODULE Spec2Model ----
(***************************************************************************)
(* Model of structure-script.py: ProjectDocumenter walks a directory tree  *)
(* and produces a tree diagram plus a File Contents section.               *)
(*                                                                         *)
(* Python strings are modelled as sequences of one-character strings, so   *)
(* that str.replace, str.count, str.split, os.path.join, os.path.relpath   *)
(* and sorted() are computed character by character, as Python does.       *)
(***************************************************************************)
EXTENDS Integers, Sequences, FiniteSets, TLC

(***************************************************************************)
(* Bounds of the explored inputs.                                          *)
(***************************************************************************)
MaxDirs == 2
MaxFiles == 2
MaxChain == 6

(***************************************************************************)
(* Characters and strings.                                                 *)
(***************************************************************************)
sep == "/"

\* The characters that occur in the model, in code point order.
Alphabet ==
  << "-", ".", "/", "A", "D", "E", "M", "R", "S", "_", "a", "b", "c", "d",
     "e", "f", "g", "h", "i", "j", "k", "l", "m", "n", "o", "p", "q", "r",
     "s", "t", "u", "v", "w", "x", "y", "z" >>

Ord(c) == CHOOSE i \in 1..Len(Alphabet) : Alphabet[i] = c

\* a < b for Python strings (lexicographic by code point).
RECURSIVE StrLess(_, _)
StrLess(a, b) ==
  IF b = << >> THEN FALSE
  ELSE IF a = << >> THEN TRUE
  ELSE IF a[1] = b[1] THEN StrLess(Tail(a), Tail(b))
  ELSE Ord(a[1]) < Ord(b[1])

\* sorted(files): ascending sequence of the names of a set.
RECURSIVE sorted(_)
sorted(S) ==
  IF S = {} THEN << >>
  ELSE LET m == CHOOSE x \in S : \A y \in S \ {x} : StrLess(x, y)
       IN  <<m>> \o sorted(S \ {m})

\* s.count(c) for a one-character c.
RECURSIVE count(_, _)
count(s, c) ==
  IF s = << >> THEN 0
  ELSE (IF s[1] = c THEN 1 ELSE 0) + count(Tail(s), c)

StartsWith(s, p) == Len(s) >= Len(p) /\ SubSeq(s, 1, Len(p)) = p

\* s.replace(old, ''), old non-empty: leftmost non-overlapping occurrences.
RECURSIVE replace(_, _)
replace(s, old) ==
  IF Len(s) < Len(old) THEN s
  ELSE IF StartsWith(s, old)
       THEN replace(SubSeq(s, Len(old) + 1, Len(s)), old)
       ELSE <<s[1]>> \o replace(Tail(s), old)

\* s.split(os.sep): the components between separators, empty ones included.
RECURSIVE split(_)
split(s) ==
  IF \A i \in 1..Len(s) : s[i] # sep THEN <<s>>
  ELSE LET k == CHOOSE i \in 1..Len(s) :
                  s[i] = sep /\ \A j \in 1..(i - 1) : s[j] # sep
       IN  <<SubSeq(s, 1, k - 1)>> \o split(SubSeq(s, k + 1, Len(s)))

\* os.sep.join(comps)
RECURSIVE sepjoin(_)
sepjoin(comps) ==
  IF comps = << >> THEN << >>
  ELSE IF Len(comps) = 1 THEN comps[1]
  ELSE comps[1] \o <<sep>> \o sepjoin(Tail(comps))

\* c * n
RECURSIVE repeat(_, _)
repeat(c, n) == IF n <= 0 THEN << >> ELSE c \o repeat(c, n - 1)

(***************************************************************************)
(* os.path                                                                 *)
(***************************************************************************)
\* os.path.join(a, b)
join(a, b) ==
  IF StartsWith(b, <<sep>>) THEN b
  ELSE IF a = << >> \/ a[Len(a)] = sep THEN a \o b
  ELSE a \o <<sep>> \o b

\* os.path.basename(p): what follows the last separator.
basename(p) == LET c == split(p) IN c[Len(c)]

\* The working directory of the process.
cwd == <<"/", "h">>

dot == <<".">>
dotdot == <<".", ".">>

\* The components of os.path.abspath(p), without the empty ones.
RECURSIVE Resolve(_, _)
Resolve(comps, acc) ==
  IF comps = << >> THEN acc
  ELSE LET c == comps[1] IN
       IF c = << >> \/ c = dot THEN Resolve(Tail(comps), acc)
       ELSE IF c = dotdot
            THEN Resolve(Tail(comps),
                         IF acc = << >> THEN acc
                         ELSE SubSeq(acc, 1, Len(acc) - 1))
            ELSE Resolve(Tail(comps), Append(acc, c))

abspath(p) == Resolve(split(join(cwd, p)), << >>)

RECURSIVE commonprefix(_, _)
commonprefix(a, b) ==
  IF a = << >> \/ b = << >> \/ a[1] # b[1] THEN 0
  ELSE 1 + commonprefix(Tail(a), Tail(b))

\* os.path.relpath(path, start)
relpath(path, start) ==
  LET start_list == abspath(start)
      path_list  == abspath(path)
      i          == commonprefix(start_list, path_list)
      rel_list   == [k \in 1..(Len(start_list) - i) |-> dotdot]
                    \o SubSeq(path_list, i + 1, Len(path_list))
  IN  IF rel_list = << >> THEN dot ELSE sepjoin(rel_list)

\* os.path.splitext(filename)[1] for a name without separators.
splitext(name) ==
  LET dots == {i \in 1..Len(name) : name[i] = "."}
      last == CHOOSE i \in dots : \A j \in dots : j <= i
  IN  IF dots = {} THEN << >>
      ELSE IF \A j \in 1..(last - 1) : name[j] = "." THEN << >>
      ELSE SubSeq(name, last, Len(name))

(***************************************************************************)
(* Names used by the program and by the explored file systems.             *)
(***************************************************************************)
n_git == <<".", "g", "i", "t">>
n_node_modules == <<"n", "o", "d", "e", "_", "m", "o", "d", "u", "l", "e", "s">>
n_pycache == <<"_", "_", "p", "y", "c", "a", "c", "h", "e", "_", "_">>
n_dist == <<"d", "i", "s", "t">>
n_build == <<"b", "u", "i", "l", "d">>
n_venv == <<"v", "e", "n", "v">>
n_images == <<"i", "m", "a", "g", "e", "s">>
n_DS_Store == <<".", "D", "S", "_", "S", "t", "o", "r", "e">>
n_env == <<".", "e", "n", "v">>
n_README_md == <<"R", "E", "A", "D", "M", "E", ".", "m", "d">>
n_package_lock_json == <<"p", "a", "c", "k", "a", "g", "e", "-", "l", "o", "c", "k", ".", "j", "s", "o", "n">>
n_a == <<"a">>
n_f == <<"f">>
n_sub == <<"s", "u", "b">>
n_proj == <<"p", "r", "o", "j">>
n_a_py == <<"a", ".", "p", "y">>
n_b_md == <<"b", ".", "m", "d">>
n_secret == <<"s", "e", "c", "r", "e", "t">>

\* ProjectDocumenter.__init__: the defaults of ignore_dirs and ignore_files.
DefaultIgnoreDirs ==
  {n_git, n_node_modules, n_pycache, n_dist, n_build, n_venv}
DefaultIgnoreFiles == {n_DS_Store, n_env}

\* main: the sets the command line starts from.
MainIgnoreDirs ==
  {n_git, n_node_modules, n_pycache, n_dist, n_build, n_venv, n_images}
MainIgnoreFiles == {n_DS_Store, n_README_md, n_package_lock_json}

\* self.language_extensions, as a set of <<extension, tag>> pairs.
language_extensions ==
  { <<<<".", "p", "y">>, "python">>,
    <<<<".", "j", "s">>, "javascript">>,
    <<<<".", "t", "s">>, "typescript">>,
    <<<<".", "j", "s", "x">>, "jsx">>,
    <<<<".", "t", "s", "x">>, "tsx">>,
    <<<<".", "c", "s", "s">>, "css">>,
    <<<<".", "s", "c", "s", "s">>, "scss">>,
    <<<<".", "h", "t", "m", "l">>, "html">>,
    <<<<".", "j", "s", "o", "n">>, "json">>,
    <<<<".", "m", "d">>, "markdown">>,
    <<<<".", "s", "q", "l">>, "sql">>,
    <<<<".", "y", "a", "m", "l">>, "yaml">>,
    <<<<".", "y", "m", "l">>, "yaml">>,
    <<<<".", "x", "m", "l">>, "xml">>,
    <<<<".", "e", "j", "s">>, "html">> }

\* get_file_language(filename)
get_file_language(filename) ==
  LET ext == splitext(filename)
      hit == {e \in language_extensions : e[1] = ext}
  IN  IF hit = {} THEN "" ELSE (CHOOSE e \in hit : TRUE)[2]

\* get_header_level without the cap at h6.
get_header_level_uncapped(path) ==
  IF path = dot THEN 1 ELSE count(path, sep) + 2

\* get_header_level with the first level at h3.
get_header_level_from_h3(path) ==
  IF path = dot THEN 1
  ELSE LET depth == count(path, sep) + 3
       IN  IF depth < 6 THEN depth ELSE 6

\* get_header_level(path)
get_header_level(path) ==
  IF path = dot THEN 1
  ELSE LET depth == count(path, sep) + 2
       IN  IF depth < 6 THEN depth ELSE 6

(***************************************************************************)
(* read_file_content.  A file of the file system carries the outcome of    *)
(* each read attempt: u8 is what open/read with encoding='utf-8' does, l1  *)
(* what the retry with encoding='latin-1' does.                            *)
(***************************************************************************)
\* The classes derived from Exception that a read attempt raises.
Exceptions == {"UnicodeDecodeError", "PermissionError", "FileNotFoundError"}

\* What the two attempts can do; Latin-1 decodes every byte sequence.
ReadKinds ==
  { [u8 |-> "ok", l1 |-> "ok"],
    [u8 |-> "PermissionError", l1 |-> "PermissionError"],
    [u8 |-> "FileNotFoundError", l1 |-> "FileNotFoundError"],
    [u8 |-> "UnicodeDecodeError", l1 |-> "ok"],
    [u8 |-> "UnicodeDecodeError", l1 |-> "PermissionError"],
    [u8 |-> "UnicodeDecodeError", l1 |-> "FileNotFoundError"] }

Readable == [u8 |-> "ok", l1 |-> "ok"]

\* read_file_content whose inner handler catches decode errors only.
read_file_content_narrow(k) ==
  IF k.u8 = "ok" THEN [type |-> "content", encoding |-> "utf-8", err |-> ""]
  ELSE IF k.u8 = "UnicodeDecodeError"
       THEN IF k.l1 = "ok"
            THEN [type |-> "content", encoding |-> "latin-1", err |-> ""]
            ELSE IF k.l1 = "UnicodeDecodeError"
                 THEN [type |-> "binary_placeholder", encoding |-> "",
                       err |-> ""]
                 ELSE [type |-> "raised", encoding |-> "", err |-> k.l1]
  ELSE [type |-> "error_placeholder", encoding |-> "", err |-> k.u8]

\* read_file_content(filepath), k the outcomes of the attempts on that file.
\* type "raised" is an exception that leaves the function.
read_file_content(k) ==
  IF k.u8 = "ok" THEN [type |-> "content", encoding |-> "utf-8", err |-> ""]
  ELSE IF k.u8 = "UnicodeDecodeError"
       THEN IF k.l1 = "ok"
            THEN [type |-> "content", encoding |-> "latin-1", err |-> ""]
            ELSE IF k.l1 \in Exceptions
                 THEN [type |-> "binary_placeholder", encoding |-> "",
                       err |-> ""]
                 ELSE [type |-> "raised", encoding |-> "", err |-> k.l1]
  ELSE IF k.u8 \in Exceptions
       THEN [type |-> "error_placeholder", encoding |-> "", err |-> k.u8]
       ELSE [type |-> "raised", encoding |-> "", err |-> k.u8]

(***************************************************************************)
(* The file system below the root path.  A directory is the sequence of    *)
(* names that leads to it from the root (<< >> is the root itself).        *)
(*   exists : the root path names a directory                              *)
(*   dirs   : the directories below the root                               *)
(*   files  : <<directory, name>> -> outcome of reading the file           *)
(*   order  : the order in which scandir lists directory names             *)
(***************************************************************************)
Nodes(f) == f.dirs \cup {<< >>}

\* The sub-directory names of a directory, in listing order.
ListDirs(f, node) ==
  SelectSeq(f.order, LAMBDA n : Append(node, n) \in f.dirs)

\* The file names of a directory.
ListFiles(f, node) == {e[2] : e \in {x \in DOMAIN f.files : x[1] = node}}

\* The directory trees with at most k directories named from names.
RECURSIVE Trees(_, _)
Trees(names, k) ==
  IF k = 0 THEN { {} }
  ELSE LET smaller == Trees(names, k - 1)
       IN  smaller \cup
           UNION { { T \cup {Append(parent, n)} :
                       parent \in T \cup {<< >>}, n \in names } :
                   T \in smaller }

\* The sets of at most k elements of S.
RECURSIVE UpTo(_, _)
UpTo(S, k) ==
  IF k = 0 THEN { {} }
  ELSE LET smaller == UpTo(S, k - 1)
       IN  smaller \cup UNION { { T \cup {x} : x \in S } : T \in smaller }

RECURSIVE Perms(_)
Perms(S) ==
  IF S = {} THEN { << >> }
  ELSE UNION { { <<x>> \o q : q \in Perms(S \ {x}) } : x \in S }

\* The file systems with the given directory names, file names and read
\* outcomes, at most maxdirs directories and maxfiles files.
FileSystems(dirnames, maxdirs, filenames, maxfiles, kinds) ==
  UNION { UNION { UNION {
    { [exists |-> TRUE, dirs |-> T, files |-> fk, order |-> o] :
        fk \in [F -> kinds] } :
      F \in UpTo((T \cup {<< >>}) \X filenames, maxfiles) } :
      o \in Perms(dirnames) } :
      T \in Trees(dirnames, maxdirs) }

NoDirectory ==
  [exists |-> FALSE, dirs |-> {}, files |-> << >>, order |-> << >>]

\* A chain a/a/.../a of k directories, with a file f in the deepest one.
Chain(k) ==
  [exists |-> TRUE,
   dirs   |-> { [i \in 1..j |-> n_a] : j \in 1..k },
   files  |-> [e \in { <<[i \in 1..k |-> n_a], n_f>> } |-> Readable],
   order  |-> <<n_a>>]

\* proj/ with a.py, sub/b.md and .git/secret.
Scenario(o) ==
  [exists |-> TRUE,
   dirs   |-> { <<n_sub>>, <<n_git>> },
   files  |-> [e \in { << << >>, n_a_py>>, << <<n_sub>>, n_b_md>>,
                       << <<n_git>>, n_secret>> } |-> Readable],
   order  |-> o]

(***************************************************************************)
(* The invocations.  entry "cli" runs main() with the parsed arguments,    *)
(* entry "api" constructs ProjectDocumenter directly.  An absent argument  *)
(* (None) and an empty one are both falsy and are modelled as {}.          *)
(***************************************************************************)
p_rel      == <<"p">>
p_trailing == <<"p", "/">>
p_slash    == <<"/">>
p_abs_a    == <<"/", "a">>
p_dist     == n_dist
p_in_build == n_build \o <<"/", "p">>
p_proj     == n_proj
p_proj_trailing == n_proj \o <<"/">>

RootPaths == {p_rel, p_trailing, p_slash, p_abs_a, dot, p_dist, p_in_build}

Call(entry, path, idirs, ifiles) ==
  [entry |-> entry, project_path |-> path,
   ignore_dirs |-> idirs, ignore_files |-> ifiles]

\* Traversal: every root path over every small tree, default ignore sets.
WalkInputs ==
  { [args |-> Call("api", r, {}, {}), fs |-> f] :
      r \in RootPaths,
      f \in FileSystems({n_a, n_git}, MaxDirs, {n_f, n_env}, MaxFiles,
                        {Readable}) }

\* A root path that does not exist.
MissingInputs ==
  { [args |-> Call(e, r, {}, {}), fs |-> NoDirectory] :
      e \in {"api", "cli"}, r \in RootPaths }

\* Reading: files with every outcome of the two read attempts.
ReadInputs ==
  { [args |-> Call("api", p_rel, {}, {}), fs |-> f] :
      f \in FileSystems({n_a}, 1, {n_f, n_a_py}, MaxFiles, ReadKinds) }

\* Configuration: with and without additional ignore arguments.
ConfigInputs ==
  { [args |-> Call(e, p_rel, d, i), fs |-> f] :
      e \in {"api", "cli"}, d \in {{}, {n_a}}, i \in {{}, {n_f}},
      f \in FileSystems({n_a, n_git}, 1, {n_f, n_env, n_README_md}, 1,
                        {Readable}) }

\* Depth: chains of directories, long enough for the heading cap.
DeepInputs ==
  { [args |-> Call("api", r, {}, {}), fs |-> Chain(k)] :
      r \in {p_rel, p_trailing}, k \in 0..MaxChain }

\* The documented scenario.
ScenarioInputs ==
  { [args |-> Call(e, r, {}, {}), fs |-> Scenario(o)] :
      e \in {"api", "cli"}, r \in {p_proj, p_proj_trailing},
      o \in Perms({n_sub, n_git}) }

Inputs ==
  WalkInputs \cup MissingInputs \cup ReadInputs \cup ConfigInputs
    \cup DeepInputs \cup ScenarioInputs

(***************************************************************************)
(* The program state.                                                      *)
(*   args          : the invocation                                        *)
(*   fs            : the file system below the root path                   *)
(*   pc            : the position of the run                               *)
(*   root_dir, ignore_dirs, ignore_files : the fields of ProjectDocumenter *)
(*   stack         : the directories os.walk has still to visit            *)
(*   tree          : the list `tree` of generate_tree                      *)
(*   documentation : the list `documentation` of generate_documentation    *)
(*   output        : the written output file (<< >> while not written)     *)
(*   stdout        : the printed messages                                  *)
(***************************************************************************)
VARIABLES args, fs, pc, root_dir, ignore_dirs, ignore_files, stack, tree,
          documentation, output, stdout

vars == <<args, fs, pc, root_dir, ignore_dirs, ignore_files, stack, tree,
          documentation, output, stdout>>

Init ==
  /\ \E in \in Inputs : args = in.args /\ fs = in.fs
  /\ pc = "start"
  /\ root_dir = << >>
  /\ ignore_dirs = {}
  /\ ignore_files = {}
  /\ stack = << >>
  /\ tree = << >>
  /\ documentation = << >>
  /\ output = << >>
  /\ stdout = << >>

\* ProjectDocumenter.__init__(root_dir, ignore_dirs, ignore_files)
ProjectDocumenter(r, idirs, ifiles) ==
  [root_dir     |-> r,
   ignore_dirs  |-> IF idirs # {} THEN idirs ELSE DefaultIgnoreDirs,
   ignore_files |-> IF ifiles # {} THEN ifiles ELSE DefaultIgnoreFiles]

\* The ignore sets main() passes to the constructor.
main_ignore_dirs(a) ==
  IF a.ignore_dirs # {} THEN MainIgnoreDirs \cup a.ignore_dirs
  ELSE MainIgnoreDirs

main_ignore_files(a) ==
  IF a.ignore_files # {} THEN MainIgnoreFiles \cup a.ignore_files
  ELSE MainIgnoreFiles

\* main(): builds the ignore sets and constructs the documenter.
main ==
  /\ pc = "start"
  /\ args.entry = "cli"
  /\ LET self == ProjectDocumenter(args.project_path,
                                   main_ignore_dirs(args),
                                   main_ignore_files(args))
     IN  /\ root_dir' = self.root_dir
         /\ ignore_dirs' = self.ignore_dirs
         /\ ignore_files' = self.ignore_files
  /\ pc' = "save"
  /\ UNCHANGED <<args, fs, stack, tree, documentation, output, stdout>>

\* A caller constructs ProjectDocumenter(root_dir, ignore_dirs, ignore_files).
construct ==
  /\ pc = "start"
  /\ args.entry = "api"
  /\ LET self == ProjectDocumenter(args.project_path, args.ignore_dirs,
                                   args.ignore_files)
     IN  /\ root_dir' = self.root_dir
         /\ ignore_dirs' = self.ignore_dirs
         /\ ignore_files' = self.ignore_files
  /\ pc' = "save"
  /\ UNCHANGED <<args, fs, stack, tree, documentation, output, stdout>>

\* An element of the list `documentation`.  node is the directory the
\* element was produced for, kept to state the properties.
Entry(kind, level, text, language, content, node) ==
  [kind |-> kind, level |-> level, text |-> text, language |-> language,
   content |-> content, node |-> node]

NoContent == [type |-> "", encoding |-> "", err |-> ""]

\* A line of the list `tree`.  node is the directory being visited.
Line(kind, text, name, node) ==
  [kind |-> kind, text |-> text, name |-> name, node |-> node]

\* The 4-character indentation motif and branch glyph; the box-drawing
\* characters of the source are written with "|", "+" and "-".
motif == <<"|", " ", " ", " ">>
glyph == <<"+", "-", "-", " ">>

\* os.walk: scandir fails on a path that is not a directory; with the
\* default onerror=None the error is dropped and nothing is yielded.
Listable(node) == fs.exists /\ node \in Nodes(fs)

\* os.walk: the sub-directories dirs of top are visited next, in order.
Push(top, dirs, rest) ==
  [i \in 1..Len(dirs) |->
     [path |-> join(top.path, dirs[i]), node |-> Append(top.node, dirs[i])]]
  \o rest

\* save_documentation calls generate_documentation, which builds the head
\* of the document and calls generate_tree().
generate_documentation_begin ==
  /\ pc = "save"
  /\ documentation' =
       << Entry("title", 1, basename(root_dir), "", NoContent, << >>),
          Entry("section", 2, "Directory Structure", "", NoContent, << >>) >>
  /\ tree' = << >>
  /\ stack' = << [path |-> root_dir, node |-> << >>] >>
  /\ pc' = "tree"
  /\ UNCHANGED <<args, fs, root_dir, ignore_dirs, ignore_files, output,
                 stdout>>

\* level = root.replace(startpath, '').count(os.sep)
tree_level(root, startpath) == count(replace(root, startpath), sep)

\* The lines one iteration of the loop of generate_tree appends.
tree_lines(top, startpath) ==
  LET root   == top.path
      level  == tree_level(root, startpath)
      indent == repeat(motif, level)
      files  == sorted(ListFiles(fs, top.node))
      shown  == SelectSeq(files, LAMBDA f : f \notin ignore_files)
  IN  (IF level > 0
       THEN << Line("dir",
                    SubSeq(indent, 1, Len(indent) - 4) \o glyph
                      \o basename(root) \o <<"/">>,
                    basename(root), top.node) >>
       ELSE << >>)
      \o [i \in 1..Len(shown) |->
            Line("file", indent \o glyph \o shown[i], shown[i], top.node)]

\* One iteration of `for root, dirs, files in os.walk(startpath)`.
generate_tree_walk ==
  /\ pc = "tree"
  /\ stack # << >>
  /\ LET top == Head(stack) IN
       IF ~Listable(top.node)
       THEN /\ stack' = Tail(stack)
            /\ UNCHANGED tree
       ELSE LET dirs == SelectSeq(ListDirs(fs, top.node),
                                  LAMBDA d : d \notin ignore_dirs)
            IN  /\ tree' = tree \o tree_lines(top, root_dir)
                /\ stack' = Push(top, dirs, Tail(stack))
  /\ UNCHANGED <<args, fs, pc, root_dir, ignore_dirs, ignore_files,
                 documentation, output, stdout>>

\* generate_tree returns; generate_documentation starts its own walk.
generate_tree_return ==
  /\ pc = "tree"
  /\ stack = << >>
  /\ documentation' = documentation \o
       << Entry("tree", 0, "", "", NoContent, << >>),
          Entry("section", 2, "File Contents", "", NoContent, << >>) >>
  /\ stack' = << [path |-> root_dir, node |-> << >>] >>
  /\ pc' = "doc"
  /\ UNCHANGED <<args, fs, root_dir, ignore_dirs, ignore_files, tree,
                 output, stdout>>

\* any(ignore_dir in root.split(os.sep) for ignore_dir in self.ignore_dirs)
doc_skipped(root) ==
  \E ignore_dir \in ignore_dirs :
     \E i \in 1..Len(split(root)) : split(root)[i] = ignore_dir

\* What one iteration of the loop of generate_documentation appends.
doc_entries(top) ==
  LET root          == top.path
      relative_path == relpath(root, root_dir)
      files         == sorted(ListFiles(fs, top.node))
      shown         == SelectSeq(files, LAMBDA f : f \notin ignore_files)
  IN  IF doc_skipped(root) THEN << >>
      ELSE (IF relative_path # dot
            THEN << Entry("heading", get_header_level(relative_path),
                          relative_path, "", NoContent, top.node) >>
            ELSE << >>)
           \o [i \in 1..Len(shown) |->
                 Entry("file", 0, shown[i], get_file_language(shown[i]),
                       read_file_content(fs.files[<<top.node, shown[i]>>]),
                       top.node)]

\* One iteration of `for root, dirs, files in os.walk(self.root_dir)`.
\* An exception leaving read_file_content would leave the whole run.
generate_documentation_walk ==
  /\ pc = "doc"
  /\ stack # << >>
  /\ LET top == Head(stack) IN
       IF ~Listable(top.node)
       THEN /\ stack' = Tail(stack)
            /\ UNCHANGED <<documentation, pc>>
       ELSE LET new == doc_entries(top) IN
            IF \E i \in 1..Len(new) : new[i].content.type = "raised"
            THEN /\ pc' = "aborted"
                 /\ stack' = << >>
                 /\ UNCHANGED documentation
            ELSE /\ documentation' = documentation \o new
                 /\ stack' = Push(top, ListDirs(fs, top.node), Tail(stack))
                 /\ UNCHANGED pc
  /\ UNCHANGED <<args, fs, root_dir, ignore_dirs, ignore_files, tree,
                 output, stdout>>

\* generate_documentation returns; save_documentation writes the output
\* file and prints the success message.
save_documentation ==
  /\ pc = "doc"
  /\ stack = << >>
  /\ output' = documentation
  /\ stdout' = Append(stdout, "Documentation saved")
  /\ pc' = "done"
  /\ UNCHANGED <<args, fs, root_dir, ignore_dirs, ignore_files, stack, tree,
                 documentation>>

Next ==
  \/ main
  \/ construct
  \/ generate_documentation_begin
  \/ generate_tree_walk
  \/ generate_tree_return
  \/ generate_documentation_walk
  \/ save_documentation

Spec == Init /\ [][Next]_vars

(***************************************************************************)
(* Vocabulary of the properties.                                           *)
(***************************************************************************)
Min(a, b) == IF a < b THEN a ELSE b

\* A directory with an ignored name on its path below the root.
BelowIgnored(node) == \E i \in 1..Len(node) : node[i] \in ignore_dirs

\* The files that are to be documented: not ignored by name and in no
\* ignored directory below the root.
ExpectedFiles ==
  { e \in DOMAIN fs.files : e[2] \notin ignore_files /\ ~BelowIgnored(e[1]) }

\* The directories that are to be shown: below the root, none ignored.
ExpectedDirs == { n \in fs.dirs : ~BelowIgnored(n) }

\* The sub-sequence of the elements of a given kind.
OfKind(seq, kind) == SelectSeq(seq, LAMBDA e : e.kind = kind)

\* <<directory, name>> of each file line or file record, in order.
FileSeq(seq) ==
  LET fl == OfKind(seq, "file")
  IN  [i \in 1..Len(fl) |->
         <<fl[i].node, IF "name" \in DOMAIN fl[i] THEN fl[i].name
                       ELSE fl[i].text>>]

\* The directory of each directory line or heading, in order.
DirSeq(seq, kind) ==
  LET dl == OfKind(seq, kind) IN [i \in 1..Len(dl) |-> dl[i].node]

Range(seq) == { seq[i] : i \in 1..Len(seq) }

NoRepeat(seq) == \A i, j \in 1..Len(seq) : seq[i] = seq[j] => i = j

\* The path string under which os.walk reaches a directory.
RECURSIVE PathOf(_)
PathOf(node) ==
  IF node = << >> THEN root_dir
  ELSE join(PathOf(SubSeq(node, 1, Len(node) - 1)), node[Len(node)])

TreeDone == pc \in {"doc", "done"}
Done == pc = "done"

\* C1: when the run has ended, the file records of File Contents are exactly
\* the non-ignored files in no ignored directory below the root, once each,
\* whatever the root path string.
C1_RecordsAreExactlyTheExpectedFiles ==
  Done => /\ Range(FileSeq(output)) = ExpectedFiles
          /\ NoRepeat(FileSeq(output))

\* C2: a run on a root path that does not exist never reaches the successful
\* end of save_documentation (output written, message printed).
C2_MissingRootNeverSucceeds ==
  ~fs.exists => ~(pc = "done" /\ output # << >> /\ stdout # << >>)

\* C3: when generate_tree has ended, the directory lines are exactly the
\* non-root directories with no ignored name on their path, once each, and
\* the file lines exactly the non-ignored files of the root and of those
\* directories, whatever the root path string.
C3_TreeLinesAreExactlyTheExpected ==
  TreeDone => /\ Range(DirSeq(tree, "dir")) = ExpectedDirs
              /\ NoRepeat(DirSeq(tree, "dir"))
              /\ Range(FileSeq(tree)) = ExpectedFiles
              /\ NoRepeat(FileSeq(tree))

\* C4: when the run has ended, the files of the tree and the file records of
\* File Contents are the same sequence, and the directory lines of the tree
\* and the headings of File Contents name the same directories in the same
\* order.
C4_TreeAndContentsAgree ==
  Done => /\ FileSeq(tree) = FileSeq(output)
          /\ DirSeq(tree, "dir") = DirSeq(output, "heading")

\* C5: every heading of File Contents, emitted for a directory k >= 1 levels
\* below the root (its relative path has d = k - 1 separators), has level
\* min(d + 2, 6); get_header_level('.') is 1; every level lies in 1..6.
C5_HeadingLevelLaw ==
  /\ \A i \in 1..Len(documentation) :
       documentation[i].kind = "heading" =>
         /\ documentation[i].level
              = Min((Len(documentation[i].node) - 1) + 2, 6)
         /\ count(documentation[i].text, sep)
              = Len(documentation[i].node) - 1
         /\ documentation[i].level \in 1..6
  /\ get_header_level(dot) = 1

\* C5 witness: a finished run with a heading at the cap for a directory six
\* levels below the root and a heading below the cap.
C5_Witness ==
  /\ Done
  /\ \E i \in 1..Len(output) :
       /\ output[i].kind = "heading"
       /\ Len(output[i].node) = 6
       /\ output[i].level = 6
  /\ \E i \in 1..Len(output) :
       /\ output[i].kind = "heading"
       /\ Len(output[i].node) = 3
       /\ output[i].level = 4

\* The documented scenario: proj with a.py, sub/b.md and .git/secret.
InScenario ==
  /\ args.project_path \in {p_proj, p_proj_trailing}
  /\ \E o \in Perms({n_sub, n_git}) : fs = Scenario(o)

HeadingAt(text, level) ==
  \E i \in 1..Len(output) :
     /\ output[i].kind = "heading"
     /\ output[i].text = text
     /\ output[i].level = level

\* C6 as stated: in the scenario, File Contents has the heading of sub at
\* level 3.
C6_SubHeadingAtLevel3 == (InScenario /\ Done) => HeadingAt(n_sub, 3)

\* C6 amended: in the scenario, File Contents has the heading of sub at
\* level 2, and no heading of sub at another level.
C6_SubHeadingAtLevel2 ==
  (InScenario /\ Done) =>
     /\ HeadingAt(n_sub, 2)
     /\ \A l \in (1..6) \ {2} : ~HeadingAt(n_sub, l)

\* C6 witness: the scenario has run to its end.
C6_Witness == InScenario /\ Done /\ HeadingAt(n_sub, 2)

\* The files of the directories the walk of generate_documentation does not
\* skip, less the ignored file names.
ReachedFiles ==
  { e \in DOMAIN fs.files :
      e[2] \notin ignore_files /\ ~doc_skipped(PathOf(e[1])) }

Unreadable(e) == fs.files[e].u8 # "ok"

\* C7: read_file_content returns a string for every outcome of the two read
\* attempts, the run is never aborted, and at the end every file of a
\* traversed directory has its record, whatever reading it or another file
\* did.
C7_UnreadableFileNeverAborts ==
  /\ \A k \in ReadKinds : read_file_content(k).type # "raised"
  /\ pc # "aborted"
  /\ \A i \in 1..Len(documentation) :
       documentation[i].kind = "file" =>
         documentation[i].content.type
           \in {"content", "binary_placeholder", "error_placeholder"}
  /\ Done => /\ Range(FileSeq(output)) = ReachedFiles
             /\ NoRepeat(FileSeq(output))

\* C7 witness: a finished run over a file whose UTF-8 read fails to decode
\* and whose Latin-1 retry is denied, with another file that was read.
C7_Witness ==
  /\ Done
  /\ \E e1, e2 \in DOMAIN fs.files :
       /\ e1 # e2
       /\ fs.files[e1].u8 = "UnicodeDecodeError"
       /\ fs.files[e1].l1 = "PermissionError"
       /\ fs.files[e2].u8 = "ok"
       /\ {e1, e2} \subseteq Range(FileSeq(output))
       /\ \E i \in 1..Len(output) :
            /\ output[i].kind = "file"
            /\ <<output[i].node, output[i].text>> = e2
            /\ output[i].content.type = "content"

\* The error other than a decode failure that reading a file runs into.
IOErrorOf(k) ==
  IF k.u8 = "UnicodeDecodeError" THEN k.l1 ELSE k.u8

\* C8: the record of a file whose read fails with an error other than a
\* decode failure, at the UTF-8 attempt or at the Latin-1 retry, holds a
\* placeholder that embeds the description of that error.
C8_PlaceholderEmbedsTheError ==
  \A i \in 1..Len(documentation) :
     documentation[i].kind = "file" =>
       LET k == fs.files[<<documentation[i].node, documentation[i].text>>]
       IN  IOErrorOf(k) \in {"PermissionError", "FileNotFoundError"} =>
             /\ documentation[i].content.type = "error_placeholder"
             /\ documentation[i].content.err = IOErrorOf(k)

\* C9: in a run started by main(), the ignore sets of the documenter hold
\* every core default name, the names main adds and the arguments.
C9_MainOnlyExtendsDefaults ==
  (args.entry = "cli" /\ pc # "start") =>
     /\ DefaultIgnoreDirs \cup {n_images} \cup args.ignore_dirs
          \subseteq ignore_dirs
     /\ DefaultIgnoreFiles \cup {n_README_md, n_package_lock_json}
          \cup args.ignore_files \subseteq ignore_files

\* C10: when generate_tree has ended, every shown directory d >= 1 levels
\* below the root has its name line prefixed by d - 1 motifs and the branch
\* glyph, and every file line of a directory d levels below the root is
\* prefixed by d motifs and the branch glyph, whatever the root path string.
C10_DepthIsTheNumberOfSeparators ==
  TreeDone =>
    /\ \A n \in ExpectedDirs :
         \E i \in 1..Len(tree) :
            /\ tree[i].kind = "dir"
            /\ tree[i].node = n
            /\ tree[i].text = repeat(motif, Len(n) - 1) \o glyph
                                \o n[Len(n)] \o <<"/">>
    /\ \A i \in 1..Len(tree) :
         tree[i].kind = "file" =>
           tree[i].text = repeat(motif, Len(tree[i].node)) \o glyph
                            \o tree[i].name

====
